---- MODULE Spec2Model ----
(***************************************************************************)
(* FLAPSTER (src/script.js): the simulation core -- the frame loop, the    *)
(* bird physics, the pipe manager, the collision test, the phase machine,  *)
(* the restart timer and the best-score persistence.                       *)
(*                                                                         *)
(* Representation.                                                         *)
(*  - Lengths and velocities are fixed-point, in hundredths of a pixel     *)
(*    (0.42 -> 42, 2.6 -> 260, 520 -> 52000); angles in hundredths of a    *)
(*    degree.  Floating-point rounding of the doubles is not modelled.     *)
(*  - Times are milliseconds.  The code only ever uses differences of      *)
(*    clock readings, so every stored clock reading is kept relative to    *)
(*    the current reading of performance.now():                            *)
(*        sincePipe  = now - state.lastPipeTime                            *)
(*        sinceFrame = now - state.lastFrameTime                           *)
(*        timers[i]  = max(due time of the i-th pending setTimeout - now,0)*)
(*    Values that are only compared against a threshold saturate there.    *)
(*    state.lastPipeTime is read in phase PLAYING only, and beginGame and  *)
(*    resetGame overwrite it on the way there: sincePipe is advanced in    *)
(*    PLAYING frames only.  elapsed is read by the simulation in phase     *)
(*    START only (the bob); it is kept until beginGame.                    *)
(*  - checkCollision is also exercised on its own, on boundary inputs      *)
(*    (CollSpec).                                                          *)
(*  - Drawing state (wing frame, clouds, stars, ground scroll) is read by  *)
(*    render() only and is left out.                                       *)
(***************************************************************************)
EXTENDS Integers, Sequences, FiniteSets, TLC

(* ------------------------------ CFG ----------------------------------- *)
BIRD_X == 9000
BIRD_RADIUS == 1400
BIRD_START_Y == 26000
JUMP_VEL == -850
GRAVITY == 42
MAX_FALL_VEL == 1200
TILT_UP == -2500
TILT_DOWN == 7000
TILT_PER_VEL == 4
TILT_EASE_PCT == 18
PIPE_W == 5800
PIPE_GAP == 14800
PIPE_SPEED == 260
PIPE_SPAWN_X == 42000
PIPE_INTERVAL == 1700
GROUND_Y == 52000
GAP_MARGIN == 6000
OFFSCREEN_X == -2000
DT_CAP == 50
BOB_PERIOD_DIV == 400
BOB_AMPLITUDE == 1000
SPAWN_GRACE == 800
RESTART_DELAY == 80

(* ------------------------------ bounds -------------------------------- *)
\* START-screen frames explored before the first flap
MaxStartTicks == 1
\* pipes alive in the list at once
MaxPipes == 2
\* score reached in one run
MaxScore == 1
\* restart timers pending at once
MaxTimers == 2

\* frame periods of the display driving requestAnimationFrame (ms)
Periods == {16, 100}
\* values Math.random() returns in createPipe, as fractions <<n, d>> = n / d
\* of [0, 1): 0 and 55/126
Randoms == {<<0, 1>>, <<55, 126>>}
\* mutant: the gap drawn over the whole height above the ground, no margins
GapTopOf_noMargin(r) == (r[1] * (GROUND_Y - PIPE_GAP)) \div r[2]
\* gapTop = minTop + Math.random() * (maxTop - minTop)
GapTopOf(r) ==
  GAP_MARGIN + (r[1] * ((GROUND_Y - PIPE_GAP - GAP_MARGIN) - GAP_MARGIN)) \div r[2]
\* the values createPipe draws for gapTop
GapTops == {GapTopOf(r) : r \in Randoms}
\* velocities at which the player is taken to press the flap key in PLAYING
FlapVys == {-388, 872}
\* times after killBird (saturated at 80 ms) at which the player is taken to
\* press the flap key in DEAD: at once, or once the delay has passed
DeadFlapAt == {0, 80}
\* contents of localStorage['flapster_best'] at boot (<<>>: key absent)
StoredValues == { <<>>, <<"1">>, <<"a", "b", "c">> }

(* ------------------------------ helpers ------------------------------- *)
Min(a, b) == IF a <= b THEN a ELSE b
Max(a, b) == IF a >= b THEN a ELSE b

(* JavaScript numbers that may be NaN: only state.bestScore can be. *)
Num(n) == [nan |-> FALSE, val |-> n]
NaN == [nan |-> TRUE, val |-> 0]
\* a > b on JavaScript numbers: false whenever an operand is NaN
JsGt(a, b) == ~a.nan /\ ~b.nan /\ a.val > b.val

DigitChars == <<"0", "1", "2", "3", "4", "5", "6", "7", "8", "9">>
IsDigit(c) == \E i \in 1..10 : DigitChars[i] = c
DigitVal(c) == (CHOOSE i \in 1..10 : DigitChars[i] = c) - 1
IsSpace(c) == c = " "

RECURSIVE SkipSpaces(_)
SkipSpaces(s) ==
  IF s # <<>> /\ IsSpace(Head(s)) THEN SkipSpaces(Tail(s)) ELSE s

RECURSIVE DigitsValue(_, _, _)
\* the longest digit prefix of s, read in base 10; seen: a digit was read
DigitsValue(s, acc, seen) ==
  IF s # <<>> /\ IsDigit(Head(s))
  THEN DigitsValue(Tail(s), 10 * acc + DigitVal(Head(s)), TRUE)
  ELSE [val |-> acc, seen |-> seen]

\* parseInt(s, 10)
ParseInt(s) ==
  LET t == SkipSpaces(s)
      neg == t # <<>> /\ Head(t) = "-"
      u == IF t # <<>> /\ Head(t) \in {"-", "+"} THEN Tail(t) ELSE t
      d == DigitsValue(u, 0, FALSE)
  IN  IF d.seen THEN Num(IF neg THEN 0 - d.val ELSE d.val) ELSE NaN

RECURSIVE NatString(_)
NatString(n) ==
  IF n < 10 THEN <<DigitChars[n + 1]>>
  ELSE NatString(n \div 10) \o <<DigitChars[(n % 10) + 1]>>

\* String(v) of a JavaScript number
JsString(v) ==
  IF v.nan THEN <<"N", "a", "N">>
  ELSE IF v.val < 0 THEN <<"-">> \o NatString(0 - v.val)
  ELSE NatString(v.val)

\* localStorage.getItem('flapster_best') || '0'   (null and '' are falsy)
StoredOrZero(s) == IF s = <<>> THEN <<"0">> ELSE s

\* parseInt(localStorage.getItem('flapster_best') || '0', 10)
LoadBestScore(s) == ParseInt(StoredOrZero(s))

(* 1000 * sin(x / 1000) for x >= 0 in milliradians (Bhaskara's rational    *)
(* approximation, |error| < 2): stands for Math.sin.                       *)
SinHalf(x) ==
  (16 * x * (3142 - x)) \div ((5 * 3142 * 3142 - 4 * x * (3142 - x)) \div 1000)
Sin1000(x) ==
  LET r == x % (2 * 3142)
  IN  IF r <= 3142 THEN SinHalf(r) ELSE 0 - SinHalf(r - 3142)

\* 260 + Math.sin(elapsed / 400) * 10
BobY(el) ==
  BIRD_START_Y + (Sin1000((el * 1000) \div BOB_PERIOD_DIV) * BOB_AMPLITUDE) \div 1000

(* ------------------------------ state --------------------------------- *)
VARIABLES
  phase,       \* state.phase: "START" | "PLAYING" | "DEAD"
  bird,        \* state.bird: [x, y, vy, angle, alive]
  pipes,       \* state.pipes: sequence of [x, gapTop, gapBot, scored]
  score,       \* state.score
  bestScore,   \* state.bestScore (a JavaScript number, possibly NaN)
  storage,     \* localStorage['flapster_best'] (<<>>: absent)
  sincePipe,   \* performance.now() - state.lastPipeTime
  sinceFrame,  \* performance.now() - state.lastFrameTime
  elapsed,     \* elapsed, while it is read by the simulation (phase START)
  animFrame,   \* state.animFrame: a requestAnimationFrame(loop) is pending
  timers,      \* pending setTimeout(resetGame, 80) callbacks: time left (FIFO)
  period,      \* frame period of the display (environment)
  sinceDeath,  \* history: time since the last killBird, saturating at 80
  deadFlaps,   \* history: per flap of the current DEAD period, whether it
               \* came 80 ms or more after killBird
  setCalls,    \* history: number of localStorage.setItem calls so far
  sinceBegin   \* history: time since the last beginGame or resetGame,
               \* advanced in PLAYING frames and saturating at 800

vars == <<phase, bird, pipes, score, bestScore, storage, sincePipe, sinceFrame,
          elapsed, animFrame, timers, period, sinceDeath, deadFlaps, setCalls,
          sinceBegin>>

(* --------------------------- game objects ----------------------------- *)
createBird ==
  [x |-> BIRD_X, y |-> BIRD_START_Y, vy |-> 0, angle |-> 0, alive |-> TRUE]

\* gapTop = minTop + Math.random() * (maxTop - minTop): gt is the value drawn
createPipe(gt) ==
  [x |-> PIPE_SPAWN_X, gapTop |-> gt, gapBot |-> gt + PIPE_GAP, scored |-> FALSE]

\* the range createPipe draws gapTop from
GapTopRange == GAP_MARGIN .. (GROUND_Y - PIPE_GAP - GAP_MARGIN)

(* ----------------------------- collision ------------------------------ *)
Sq(a) == a * a

Abs(a) == IF a < 0 THEN 0 - a ELSE a

\* mutant: a circle touching the rectangle counts as a hit
HitsRect_inclusive(bx, by, x1, x2, y1, y2) ==
  LET nearX == Max(x1, Min(bx, x2))
      nearY == Max(y1, Min(by, y2))
  IN  /\ Abs(bx - nearX) <= BIRD_RADIUS
      /\ Abs(by - nearY) <= BIRD_RADIUS
      /\ Sq(bx - nearX) + Sq(by - nearY) <= Sq(BIRD_RADIUS)
\* circle (bx, by, r) against the rectangle [x1, x2] x [y1, y2]:
\* dX * dX + dY * dY < br * br  (the two tests in front keep the squares
\* within TLC's 32-bit integers and do not change the result)
HitsRect(bx, by, x1, x2, y1, y2) ==
  LET nearX == Max(x1, Min(bx, x2))
      nearY == Max(y1, Min(by, y2))
  IN  /\ Abs(bx - nearX) < BIRD_RADIUS
      /\ Abs(by - nearY) < BIRD_RADIUS
      /\ Sq(bx - nearX) + Sq(by - nearY) < Sq(BIRD_RADIUS)

\* mutant: no ground
HitsGround_never(b) == FALSE
\* mutant: the ground test on the bird's centre instead of its bottom edge
HitsGround_centre(b) == b.y >= GROUND_Y
HitsGround(b) == b.y + BIRD_RADIUS >= GROUND_Y
HitsCeiling(b) == b.y - BIRD_RADIUS <= 0
HitsPipe(b, p) ==
  \/ HitsRect(b.x, b.y, p.x, p.x + PIPE_W, 0, p.gapTop)
  \/ HitsRect(b.x, b.y, p.x, p.x + PIPE_W, p.gapBot, GROUND_Y)

checkCollision(b, ps) ==
  \/ HitsGround(b)
  \/ HitsCeiling(b)
  \/ \E i \in 1..Len(ps) : HitsPipe(b, ps[i])

(* ------------------------------ update -------------------------------- *)
\* mutant: gravity without the terminal velocity
Gravity_unclamped(vy) == vy + GRAVITY
\* bird.vy = Math.min(bird.vy + GRAVITY, MAX_FALL_VEL); bird.y += bird.vy
Gravity(vy) == Min(vy + GRAVITY, MAX_FALL_VEL)

\* bird.angle += (targetAngle - bird.angle) * 0.18
Tilt(angle, vy) ==
  LET target == Max(TILT_UP, Min(TILT_DOWN, vy * TILT_PER_VEL))
  IN  angle + ((target - angle) * TILT_EASE_PCT) \div 100

\* mutant: the step of the bird scaled by the frame's delta time
Physics_dtScaled(b) ==
  LET v == Gravity(b.vy)
      dt == Min(sinceFrame + period, DT_CAP)
  IN  [b EXCEPT !.vy = v, !.y = b.y + (v * dt) \div 16,
                !.angle = Tilt(b.angle, v)]
\* mutant: the position advanced by the velocity before gravity is added
Physics_oldVelocity(b) ==
  LET v == Gravity(b.vy)
  IN  [b EXCEPT !.vy = v, !.y = b.y + b.vy, !.angle = Tilt(b.angle, v)]
Physics(b) ==
  LET v == Gravity(b.vy)
  IN  [b EXCEPT !.vy = v, !.y = b.y + v, !.angle = Tilt(b.angle, v)]

\* mutant: a pipe is spawned without waiting for the interval
SpawnDue_atOnce(t) == t >= 0 - SPAWN_GRACE
\* mutant: a pipe is spawned only once more than the interval has passed
SpawnDue_strict(t) == t > PIPE_INTERVAL
\* now - state.lastPipeTime >= PIPE_INTERVAL, t = now - state.lastPipeTime
SpawnDue(t) == t >= PIPE_INTERVAL

\* mutant: a pipe counts as passed once its left edge is behind the bird
Passed_leftEdge(p) == p.x < BIRD_X
Passed(p) == p.x + PIPE_W < BIRD_X
OffScreen(p) == p.x + PIPE_W < OFFSCREEN_X

RemoveAt(s, i) == SubSeq(s, 1, i - 1) \o SubSeq(s, i + 1, Len(s))

RECURSIVE PipeLoopUp(_, _, _)
\* the pipe loop iterating upwards, i++ after a splice as after any pipe
PipeLoopUp(ps, i, sc) ==
  IF i > Len(ps) THEN [pipes |-> ps, score |-> sc]
  ELSE
    LET moved == [ps[i] EXCEPT !.x = @ - PIPE_SPEED]
        hit == ~moved.scored /\ Passed(moved)
        p == IF hit THEN [moved EXCEPT !.scored = TRUE] ELSE moved
        sc2 == IF hit THEN sc + 1 ELSE sc
        ps2 == IF OffScreen(p) THEN RemoveAt(ps, i) ELSE [ps EXCEPT ![i] = p]
    IN  PipeLoopUp(ps2, i + 1, sc2)
\* mutant: for (let i = 0; i < pipes.length; i++)
PipeLoop_forward(ps, i, sc) == PipeLoopUp(ps, 1, sc)

RECURSIVE PipeLoop(_, _, _)
\* for (let i = pipes.length - 1; i >= 0; i--) { move; score; splice }
\* (i is the 1-based index; sc the running score)
PipeLoop(ps, i, sc) ==
  IF i < 1 THEN [pipes |-> ps, score |-> sc]
  ELSE
    LET moved == [ps[i] EXCEPT !.x = @ - PIPE_SPEED]
        hit == ~moved.scored /\ Passed(moved)
        p == IF hit THEN [moved EXCEPT !.scored = TRUE] ELSE moved
        sc2 == IF hit THEN sc + 1 ELSE sc
        ps2 == IF OffScreen(p) THEN RemoveAt(ps, i) ELSE [ps EXCEPT ![i] = p]
    IN  PipeLoop(ps2, i - 1, sc2)

\* killBird's comparison and new best score
NewBest(sc, best) == JsGt(Num(sc), best)
\* mutant: killBird stores the score of the run whatever the best score is
BestAfter_overwrite(sc, best) == Num(sc)
BestAfter(sc, best) == IF NewBest(sc, best) THEN Num(sc) ELSE best

(* the passage of d ms on the values kept relative to the clock *)
Later(t, d, cap) == Min(t + d, cap)
TimersLater(ts, d) == [i \in DOMAIN ts |-> Max(ts[i] - d, 0)]

(* ------------------------------ actions ------------------------------- *)
\* the state after the script has run, on a display of a period in ps with a
\* stored value in ss
Boot(ps, ss) ==
  /\ period \in ps
  /\ storage \in ss
  /\ phase = "START"
  /\ bird = createBird
  /\ pipes = <<>>
  /\ score = 0
  /\ bestScore = LoadBestScore(storage)
  /\ sincePipe = 0
  /\ sinceBegin = 0
  /\ sinceFrame = 0
  /\ elapsed = 0
  /\ animFrame = TRUE
  /\ timers = <<>>
  /\ sinceDeath = 0
  /\ deadFlaps = <<>>
  /\ setCalls = 0

Init == Boot(Periods, StoredValues)

\* mutant: the start-screen bird is under gravity
Bob_withGravity(b, el) == [b EXCEPT !.y = BobY(el), !.vy = Gravity(b.vy)]
\* the part of loop(timestamp) before update(dt): START-screen bob
Bob(b, el) == [b EXCEPT !.y = BobY(el)]

\* update(dt) in phase PLAYING, a frame d ms after the previous one; gt is the
\* gapTop createPipe would draw, ok whether localStorage.setItem returns
UpdatePlaying(d, gt, ok) ==
  LET b1 == Physics(bird)
      t == sincePipe + d
      spawn == SpawnDue(t)
      ps1 == IF spawn THEN Append(pipes, createPipe(gt)) ELSE pipes
      r == PipeLoop(ps1, Len(ps1), score)
      dead == checkCollision(b1, r.pipes)
      record == dead /\ NewBest(r.score, bestScore)
  IN  /\ ~(spawn /\ Len(pipes) >= MaxPipes)
      /\ r.score <= MaxScore
      /\ sincePipe' = IF spawn THEN 0 ELSE t
      /\ sinceBegin' = Later(sinceBegin, d, SPAWN_GRACE)
      /\ pipes' = r.pipes
      /\ score' = r.score
      /\ bird' = IF dead THEN [b1 EXCEPT !.alive = FALSE] ELSE b1
      /\ phase' = IF dead THEN "DEAD" ELSE phase
      /\ bestScore' = IF dead THEN BestAfter(r.score, bestScore) ELSE bestScore
      /\ setCalls' = IF record THEN setCalls + 1 ELSE setCalls
      /\ storage' = IF record /\ ok THEN JsString(BestAfter(r.score, bestScore))
                    ELSE storage
      \* setItem throwing leaves loop() before requestAnimationFrame(loop)
      /\ animFrame' = ~(record /\ ~ok)
      /\ sinceDeath' = IF dead THEN 0 ELSE Later(sinceDeath, d, RESTART_DELAY)
      /\ deadFlaps' = IF dead THEN <<>> ELSE deadFlaps
      /\ UNCHANGED elapsed

\* loop(timestamp): one animation frame, period ms after the previous one
Loop ==
  /\ animFrame
  /\ LET d == period
         dt == Min(sinceFrame + d, DT_CAP)
     IN  /\ sinceFrame' = 0
         /\ timers' = TimersLater(timers, d)
         /\ UNCHANGED period
         /\ CASE phase = "START" ->
                   /\ elapsed < MaxStartTicks * dt
                   /\ elapsed' = elapsed + dt
                   /\ bird' = Bob(bird, elapsed + dt)
                   /\ sinceDeath' = Later(sinceDeath, d, RESTART_DELAY)
                   /\ UNCHANGED <<phase, pipes, score, bestScore, storage,
                                  sincePipe, sinceBegin, animFrame, deadFlaps, setCalls>>
              [] phase = "PLAYING" ->
                   \E gt \in GapTops, ok \in BOOLEAN : UpdatePlaying(d, gt, ok)
              [] phase = "DEAD" ->
                   /\ sinceDeath' = Later(sinceDeath, d, RESTART_DELAY)
                   /\ UNCHANGED <<phase, bird, pipes, score, bestScore, storage,
                                  sincePipe, sinceBegin, elapsed, animFrame, deadFlaps,
                                  setCalls>>

\* beginGame(): START -> PLAYING
beginGame ==
  /\ phase' = "PLAYING"
  /\ bird' = [bird EXCEPT !.vy = JUMP_VEL]
  /\ sincePipe' = 0 - SPAWN_GRACE
  /\ sinceBegin' = 0
  /\ elapsed' = 0
  /\ UNCHANGED <<pipes, score, bestScore, storage, sinceFrame,
                 animFrame, timers, period, sinceDeath, deadFlaps, setCalls>>

\* mutant: resetGame leaves the pipes of the run that ended
resetGame_keepsPipes ==
  /\ score' = 0
  /\ bird' = [createBird EXCEPT !.vy = JUMP_VEL]
  /\ phase' = "PLAYING"
  /\ sincePipe' = 0 - SPAWN_GRACE
  /\ sinceBegin' = 0
  /\ deadFlaps' = <<>>
  /\ UNCHANGED <<pipes, bestScore, storage, sinceFrame, elapsed, animFrame,
                 period, sinceDeath, setCalls>>

\* mutant: resetGame puts the bird of the run that ended back at the start
resetGame_keepsBird ==
  /\ pipes' = <<>>
  /\ score' = 0
  /\ bird' = [bird EXCEPT !.y = BIRD_START_Y, !.vy = JUMP_VEL, !.angle = 0]
  /\ phase' = "PLAYING"
  /\ sincePipe' = 0 - SPAWN_GRACE
  /\ sinceBegin' = 0
  /\ deadFlaps' = <<>>
  /\ UNCHANGED <<bestScore, storage, sinceFrame, elapsed, animFrame, period,
                 sinceDeath, setCalls>>

\* resetGame(): the callback of a restart timer
resetGame ==
  /\ pipes' = <<>>
  /\ score' = 0
  /\ bird' = [createBird EXCEPT !.vy = JUMP_VEL]
  /\ phase' = "PLAYING"
  /\ sincePipe' = 0 - SPAWN_GRACE
  /\ sinceBegin' = 0
  /\ deadFlaps' = <<>>
  /\ UNCHANGED <<bestScore, storage, sinceFrame, elapsed, animFrame, period,
                 sinceDeath, setCalls>>

\* setTimeout(resetGame, 80)
scheduleReset ==
  /\ Len(timers) < MaxTimers
  /\ sinceDeath \in DeadFlapAt
  /\ timers' = Append(timers, RESTART_DELAY)
  /\ deadFlaps' = Append(deadFlaps, sinceDeath >= RESTART_DELAY)
  /\ UNCHANGED <<phase, bird, pipes, score, bestScore, storage, sincePipe,
                 sinceBegin,
                 sinceFrame, elapsed, animFrame, period, sinceDeath, setCalls>>

\* mutant: a flap adds the jump impulse to the velocity the bird has
flap_addsImpulse ==
  /\ bird.vy \in FlapVys
  /\ bird' = [bird EXCEPT !.vy = @ + JUMP_VEL, !.angle = TILT_UP]
  /\ UNCHANGED <<phase, pipes, score, bestScore, storage, sincePipe,
                 sinceBegin, sinceFrame,
                 elapsed, animFrame, timers, period, sinceDeath, deadFlaps,
                 setCalls>>

\* the jump of a flap while playing
flap ==
  /\ bird.vy \in FlapVys
  /\ bird' = [bird EXCEPT !.vy = JUMP_VEL, !.angle = TILT_UP]
  /\ UNCHANGED <<phase, pipes, score, bestScore, storage, sincePipe,
                 sinceBegin, sinceFrame,
                 elapsed, animFrame, timers, period, sinceDeath, deadFlaps,
                 setCalls>>

\* mutant: a flap on the game-over screen restarts at once, without a timer
handleFlap_restartsAtOnce ==
  CASE phase = "START" -> beginGame
    [] phase = "DEAD" -> resetGame /\ UNCHANGED timers
    [] phase = "PLAYING" /\ bird.alive -> flap
    [] OTHER -> FALSE

\* handleFlap(): a key press or pointer press
handleFlap ==
  CASE phase = "START" -> beginGame
    [] phase = "DEAD" -> scheduleReset
    [] phase = "PLAYING" /\ bird.alive -> flap
    [] OTHER -> FALSE

\* a restart timer fires: no earlier than 80 ms after its setTimeout
TimerFire ==
  /\ timers # <<>>
  /\ timers[1] = 0
  /\ timers' = Tail(timers)
  /\ resetGame

\* time passing once no frame is scheduled any more
TimePasses ==
  /\ ~animFrame
  /\ sinceFrame' = Later(sinceFrame, period, DT_CAP)
  /\ sinceDeath' = Later(sinceDeath, period, RESTART_DELAY)
  /\ timers' = TimersLater(timers, period)
  /\ UNCHANGED <<phase, bird, pipes, score, bestScore, storage, sincePipe,
                 sinceBegin,
                 elapsed, animFrame, period, deadFlaps, setCalls>>

Next == Loop \/ handleFlap \/ TimerFire \/ TimePasses

Spec == Init /\ [][Next]_vars

(* the same steps under the scheduling the platform gives: while the game  *)
(* is over, animation frames keep coming as long as one is requested; time *)
(* passes; and a timer whose delay has passed is run                       *)
\* a frame of the game-over screen
DeadFrame == phase = "DEAD" /\ Loop

LiveSpec ==
  Spec /\ WF_vars(DeadFrame) /\ WF_vars(TimePasses) /\ WF_vars(TimerFire)

(* frames keep coming during a run as long as one is requested *)
\* a frame of a run
PlayFrame == phase = "PLAYING" /\ Loop
\* the next frame of the run would take the model over MaxPipes or MaxScore
AtBound ==
  /\ phase = "PLAYING"
  /\ LET spawn == SpawnDue(sincePipe + period)
         ps1 == IF spawn THEN Append(pipes, createPipe(GAP_MARGIN)) ELSE pipes
     IN  \/ spawn /\ Len(pipes) >= MaxPipes
         \/ PipeLoop(ps1, Len(ps1), score).score > MaxScore
\* a frame of a run can be taken: ENABLED <<PlayFrame>>_vars
CanPlayFrame == phase = "PLAYING" /\ animFrame /\ ~AtBound

\* weak fairness of PlayFrame (with its enabling condition written out), of
\* the game-over frames, of time passing and of due timers
FallSpec ==
  /\ LiveSpec
  /\ ([]<>(~CanPlayFrame) \/ []<><<PlayFrame>>_vars)

(* ------------- checkCollision on its own, on chosen inputs ------------- *)
\* bird heights: around the ceiling, around the edges and the corners of the
\* gap of a pipe with gapTop 170, the start height, around the ground
CollYs == {1399, 1400, 1401, 18119, 18120, 18121, 18399, 18400, 26000,
           30400, 30401, 30679, 30680, 30681, 50000, 50599, 50600, 50601}
\* pipe positions: just behind the bird, around it, just ahead of it (at the
\* distance of the radius, and at the corner distance 8.4 of a 8.4-11.2-14
\* triangle)
CollXs == {1799, 1800, 1801, 5000, 9839, 9840, 9841, 10399, 10400}
\* pipe lists: none, one pipe, and a pipe far ahead in front of one
CollPipes ==
  {<<>>}
    \cup {<<[createPipe(17000) EXCEPT !.x = x]>> : x \in CollXs}
    \cup {<<createPipe(GAP_MARGIN), [createPipe(17000) EXCEPT !.x = x]>> :
             x \in CollXs}

\* a run whose frame has moved the bird to height y among the pipes ps
CollInit ==
  /\ period \in Periods
  /\ storage = <<>>
  /\ phase = "PLAYING"
  /\ \E y \in CollYs : bird = [createBird EXCEPT !.y = y, !.vy = JUMP_VEL]
  /\ pipes \in CollPipes
  /\ score = 0
  /\ bestScore = LoadBestScore(storage)
  /\ sincePipe = 0
  /\ sinceBegin = 0
  /\ sinceFrame = 0
  /\ elapsed = 0
  /\ animFrame = TRUE
  /\ timers = <<>>
  /\ sinceDeath = 0
  /\ deadFlaps = <<>>
  /\ setCalls = 0

\* if (checkCollision(bird, pipes)) killBird();   with no new best score
CollStep ==
  /\ phase = "PLAYING"
  /\ ~NewBest(score, bestScore)
  /\ LET dead == checkCollision(bird, pipes)
     IN  /\ phase' = IF dead THEN "DEAD" ELSE phase
         /\ bird' = IF dead THEN [bird EXCEPT !.alive = FALSE] ELSE bird
         /\ bestScore' = IF dead THEN BestAfter(score, bestScore) ELSE bestScore
  /\ UNCHANGED <<pipes, score, storage, sincePipe, sinceBegin, sinceFrame,
                 elapsed, animFrame, timers, period, sinceDeath, deadFlaps,
                 setCalls>>

CollSpec == CollInit /\ [][CollStep]_vars

(* ------------------------------ claims -------------------------------- *)
\* the simulation state a flap, a frame or a restart acts on
simState == <<phase, bird, pipes, score, bestScore, storage, sincePipe>>

\* Math.max on JavaScript numbers
JsMax(a, b) == IF a.nan \/ b.nan THEN NaN ELSE Num(Max(a.val, b.val))

\* the state resetGame leaves: a fresh live bird at its initial position
\* with the jump velocity, no pipes, score 0, the spawn grace re-armed
FreshRun ==
  /\ phase = "PLAYING"
  /\ score = 0
  /\ pipes = <<>>
  /\ bird = [x |-> BIRD_X, y |-> BIRD_START_Y, vy |-> JUMP_VEL, angle |-> 0,
             alive |-> TRUE]
  /\ sincePipe = 0 - SPAWN_GRACE

\* C1: the phase changes only START -> PLAYING in a flap, PLAYING -> DEAD in
\* a frame and DEAD -> PLAYING in a restart-timer callback; START is never
\* entered again, and a frame changes the phase at most once (so never
\* START -> DEAD or DEAD -> DEAD through PLAYING).
C1_PhaseTransitions ==
  [][phase' # phase =>
       \/ phase = "START" /\ phase' = "PLAYING" /\ handleFlap
       \/ phase = "PLAYING" /\ phase' = "DEAD" /\ Loop
       \/ phase = "DEAD" /\ phase' = "PLAYING" /\ TimerFire]_vars

\* C1 witness: a run that was started, died with a new best score and was
\* restarted
C1_Witness == phase = "PLAYING" /\ setCalls > 0

\* C2 (as claimed): a flap in DEAD before the delay has passed changes no
\* simulation state and causes no restart, at once or later: the phase
\* leaves DEAD only when a flap came 80 ms or more after the death.
C2_EarlyFlapIgnored ==
  [][/\ (phase = "DEAD" /\ sinceDeath < RESTART_DELAY /\ handleFlap)
          => UNCHANGED simState
     /\ (phase = "DEAD" /\ phase' = "PLAYING")
          => \E i \in DOMAIN deadFlaps : deadFlaps[i]]_vars

\* C3 (as claimed): the phase leaves DEAD only after a flap received in this
\* DEAD period, and no earlier than 80 ms after the death.
C3_RestartNeedsFlapAndDelay ==
  [][(phase = "DEAD" /\ phase' = "PLAYING")
       => deadFlaps # <<>> /\ sinceDeath >= RESTART_DELAY]_vars

\* C4: at every PLAYING -> DEAD step the best score becomes the maximum of
\* the previous best and the score at death (pipes scored in that frame
\* included), and setItem is called iff that score is strictly greater than
\* the previous best; setItem is called in no other step and the best score
\* never decreases.  (Comparisons and maximum as JavaScript takes them.)
C4_BestScoreAtDeath ==
  [][/\ (phase = "PLAYING" /\ phase' = "DEAD")
          => /\ bestScore' = JsMax(bestScore, Num(score'))
             /\ setCalls' = setCalls + 1 <=> JsGt(Num(score'), bestScore)
     /\ setCalls' \in {setCalls, setCalls + 1}
     /\ setCalls' # setCalls => phase = "PLAYING" /\ phase' = "DEAD"
     /\ bestScore' = bestScore \/ JsGt(bestScore', bestScore)]_vars

\* C4 witness: a run has died in the very frame that scored a pipe (the
\* pipe's right edge is less than one step left of the bird's x), with a
\* score above the previous best, which became the best score and was written
C4_Witness ==
  /\ phase = "DEAD"
  /\ score > 0
  /\ bestScore = Num(score)
  /\ setCalls > 0
  /\ storage = JsString(Num(score))
  /\ \E i \in DOMAIN pipes :
       pipes[i].scored /\ pipes[i].x + PIPE_SPEED + PIPE_W >= BIRD_X

\* C5: a frame in PLAYING adds to the score exactly the number of unscored
\* pipes whose right edge it moves strictly left of the bird's x; nothing
\* else raises the score; and in every state a pipe is flagged scored
\* exactly when its right edge is left of the bird's x, so each pipe counts
\* once, in the first such frame, and never again.
C5_ScoredOnce ==
  [][/\ (phase = "PLAYING" /\ Loop)
          => score' = score + Cardinality({i \in DOMAIN pipes :
                 /\ ~pipes[i].scored
                 /\ pipes[i].x - PIPE_SPEED + PIPE_W < BIRD_X})
     /\ score' # score => \/ phase = "PLAYING" /\ Loop
                          \/ score' = 0 /\ TimerFire
     /\ \A i \in DOMAIN pipes' :
          pipes'[i].scored <=> pipes'[i].x + PIPE_W < BIRD_X]_vars

\* C5 witness: one pipe has been scored and is still in the list, with a
\* later pipe not yet scored
C5_Witness ==
  /\ phase = "PLAYING"
  /\ score = 1
  /\ Len(pipes) = 2
  /\ pipes[1].scored
  /\ ~pipes[2].scored

\* C6: a frame that starts in PLAYING and leaves the bird's bottom edge at or
\* below the ground ends in DEAD with the bird not alive.
C6_GroundKills ==
  [][(phase = "PLAYING" /\ Loop /\ bird'.y + BIRD_RADIUS >= GROUND_Y)
       => phase' = "DEAD" /\ ~bird'.alive]_vars

\* C6 witness: the bird has died on the ground
C6_Witness ==
  phase = "DEAD" /\ ~bird.alive /\ bird.y + BIRD_RADIUS >= GROUND_Y

\* C7: once a flap has been received in DEAD, a fresh run follows.
C7_FlapInDeadRestarts == (phase = "DEAD" /\ deadFlaps # <<>>) ~> FreshRun

\* C7 witness: the fresh run of a restart (after a run that set a new best)
C7_Witness == FreshRun /\ setCalls > 0

\* C8 (as claimed): a failing setItem does not interrupt the frame loop: a
\* frame is requested in every state.
C8_LoopSurvivesStorageFailure == animFrame

\* the stored value is no decimal number: parseInt finds no digit to read
Malformed(s) == s # <<>> /\ ~IsDigit(s[1])

\* C9 (as claimed): with a malformed stored value the best score starts at
\* 0, and the first run that ends with a score above 0 makes that score the
\* best score.
C9_MalformedBestIsZero ==
  /\ (Malformed(storage) /\ phase = "START") => bestScore = Num(0)
  /\ (Malformed(storage) /\ phase = "DEAD" /\ score > 0) => bestScore = Num(score)

\* C10: in PLAYING the vertical velocity stays within [JUMP_VEL, MAX_FALL_VEL].
C10_VelocityBounds ==
  phase = "PLAYING" => JUMP_VEL <= bird.vy /\ bird.vy <= MAX_FALL_VEL

\* C10 witness: the bird falls at the terminal velocity
C10_Witness == phase = "PLAYING" /\ bird.vy = MAX_FALL_VEL

\* C11: a flap while PLAYING with the bird alive sets vy to JUMP_VEL whatever
\* it was and the tilt to TILT_UP, and leaves the phase, the bird's x and y,
\* the score, the best score, the pipes and the last-spawn time unchanged.
C11_FlapSetsJumpVelocity ==
  [][(phase = "PLAYING" /\ bird.alive /\ handleFlap)
       => /\ bird'.vy = JUMP_VEL
          /\ bird'.angle = TILT_UP
          /\ bird'.x = bird.x /\ bird'.y = bird.y /\ bird'.alive
          /\ UNCHANGED <<phase, score, bestScore, pipes, sincePipe>>]_vars

\* C11 witness: the state a flap leaves in mid-run, with a pipe on screen
\* (beginGame and resetGame leave the tilt at 0, a frame changes vy)
C11_Witness ==
  /\ phase = "PLAYING"
  /\ bird.vy = JUMP_VEL
  /\ bird.angle = TILT_UP
  /\ pipes # <<>>

\* the gaps of the pipes of a list, in order
Gaps(ps) == [i \in DOMAIN ps |-> <<ps[i].gapTop, ps[i].gapBot>>]

\* C12: every pipe has gapBot - gapTop = PIPE_GAP and gapTop within
\* [60, GROUND_Y - PIPE_GAP - 60]; and no step changes the gap of a pipe that
\* stays in the list: a step leaves the gaps of the list as they are up to
\* pipes dropped at the old end and at most one pipe added at the new end,
\* or empties the list (restart).
C12_GapInvariant ==
  [][/\ \A i \in DOMAIN pipes' :
          /\ pipes'[i].gapBot - pipes'[i].gapTop = PIPE_GAP
          /\ pipes'[i].gapTop >= GAP_MARGIN
          /\ pipes'[i].gapTop <= GROUND_Y - PIPE_GAP - GAP_MARGIN
     /\ \/ pipes' = <<>>
        \/ \E k \in 0..Len(pipes), n \in {0, 1} :
             /\ Len(pipes') = Len(pipes) - k + n
             /\ SubSeq(Gaps(pipes'), 1, Len(pipes) - k)
                  = SubSeq(Gaps(pipes), k + 1, Len(pipes))]_vars

\* C12 witness: a pipe that has crossed the whole screen, scored, and is
\* about to be removed
C12_Witness ==
  /\ phase = "PLAYING"
  /\ \E i \in DOMAIN pipes :
       /\ pipes[i].x + PIPE_W < 0
       /\ pipes[i].scored
       /\ pipes[i].gapBot - pipes[i].gapTop = PIPE_GAP

C14_SpawnGrace ==
  [][/\ (phase' = "PLAYING" /\ sinceBegin' < SPAWN_GRACE) => pipes' = <<>>
     /\ ((phase = "START" /\ handleFlap) \/ TimerFire)
          => phase' = "PLAYING" /\ pipes' = <<>> /\ sincePipe' = 0 - SPAWN_GRACE]_vars

\* C14 witness: a frame within the grace period of a restarted run
C14_Witness ==
  /\ phase = "PLAYING"
  /\ setCalls > 0
  /\ sinceBegin > 0
  /\ sinceBegin < SPAWN_GRACE
  /\ pipes = <<>>

\* C15 (as claimed): resetGame runs in phase DEAD only, and a run in PLAYING
\* never has its score set back, its pipes cleared or its bird replaced.
C15_ResetOnlyInDead ==
  [][/\ TimerFire => phase = "DEAD"
     /\ (phase = "PLAYING" /\ phase' = "PLAYING") => score' >= score]_vars

\* C16: a PLAYING frame appends exactly one pipe, created at PIPE_SPAWN_X
\* (and moved by the pipe loop of the same frame), when now - lastPipeTime
\* >= PIPE_INTERVAL, and then sets lastPipeTime to now; otherwise it appends
\* none and leaves lastPipeTime as it is.  So at most one pipe is spawned per
\* frame, and a pipe is spawned only PIPE_INTERVAL or more after the last.
C16_SpawnRule ==
  [][(phase = "PLAYING" /\ Loop) =>
       LET due == sincePipe + period >= PIPE_INTERVAL
           fresh == {i \in DOMAIN pipes' :
                       pipes'[i].x = PIPE_SPAWN_X - PIPE_SPEED}
       IN  /\ Cardinality(fresh) = IF due THEN 1 ELSE 0
           /\ due => /\ fresh = {Len(pipes')}
                      /\ ~pipes'[Len(pipes')].scored
                      /\ sincePipe' = 0
           /\ ~due => sincePipe' = sincePipe + period
           /\ \A i \in DOMAIN pipes :
                pipes[i].x <= PIPE_SPAWN_X - PIPE_SPEED]_vars

\* C16 witness: a second pipe has just been spawned, exactly PIPE_INTERVAL
\* after the one before it
C16_Witness ==
  /\ phase = "PLAYING"
  /\ Len(pipes) = 2
  /\ sincePipe = 0
  /\ pipes[2].x = PIPE_SPAWN_X - PIPE_SPEED
  /\ pipes[1].x = PIPE_SPAWN_X - PIPE_SPEED - (PIPE_INTERVAL \div period) * PIPE_SPEED
  /\ PIPE_INTERVAL % period = 0

\* the x of the pipes of a list, in order
Xs(ps) == [i \in DOMAIN ps |-> ps[i].x]
\* a pipe at x is not retired: its right edge is not left of -20
StaysAt(x) == x + PIPE_W >= OFFSCREEN_X

RECURSIVE PipesAfter(_, _)
\* the list ps after the pipe loops of n frames
PipesAfter(ps, n) ==
  IF n = 0 THEN ps ELSE PipesAfter(PipeLoop(ps, Len(ps), 0).pipes, n - 1)

\* C17: a PLAYING frame moves every pipe of the list (the one it spawns
\* included) left by exactly PIPE_SPEED and removes exactly the pipes whose
\* right edge is then left of -20: the list after the frame is the list
\* before it, each x less PIPE_SPEED, in order, without the pipes off screen;
\* no pipe is skipped by the scoring either.  (A pipe at x = 420 is at
\* x = 394 after 10 frames, still in the list.)
C17_MoveAndRetire ==
  [][(phase = "PLAYING" /\ Loop) =>
       /\ Xs(PipesAfter(<<createPipe(GAP_MARGIN)>>, 10)) = <<39400>>
       /\ LET due == sincePipe + period >= PIPE_INTERVAL
              before == IF due THEN Xs(pipes) \o <<PIPE_SPAWN_X>> ELSE Xs(pipes)
              shifted == [i \in DOMAIN before |-> before[i] - PIPE_SPEED]
          IN  /\ Xs(pipes') = SelectSeq(shifted, StaysAt)
              /\ \A i \in DOMAIN pipes' :
                   /\ StaysAt(pipes'[i].x)
                   /\ pipes'[i].scored <=> pipes'[i].x + PIPE_W < BIRD_X]_vars

\* C17 witness: the first pipe of a run has been scored and removed while a
\* later pipe, not yet scored, stays in the list
C17_Witness ==
  /\ phase = "PLAYING"
  /\ score = 1
  /\ Len(pipes) = 1
  /\ ~pipes[1].scored

\* the distance from c to the interval [lo, hi] along one axis
AxisGap(lo, hi, c) == Max(Max(lo - c, c - hi), 0)
\* the squared distance from (bx, by) to the closest point of the rectangle
\* [x1, x2] x [y1, y2] is strictly less than r^2
CloserThanRadius(bx, by, x1, x2, y1, y2) ==
  LET dx == AxisGap(x1, x2, bx)
      dy == AxisGap(y1, y2, by)
  IN  /\ dx < BIRD_RADIUS
      /\ dy < BIRD_RADIUS
      /\ dx * dx + dy * dy < BIRD_RADIUS * BIRD_RADIUS
\* the condition of the claim
Touches(b, ps) ==
  \/ b.y + BIRD_RADIUS >= GROUND_Y
  \/ b.y - BIRD_RADIUS <= 0
  \/ \E i \in DOMAIN ps :
       \/ CloserThanRadius(b.x, b.y, ps[i].x, ps[i].x + PIPE_W, 0, ps[i].gapTop)
       \/ CloserThanRadius(b.x, b.y, ps[i].x, ps[i].x + PIPE_W,
                           ps[i].gapBot, GROUND_Y)
\* the bird of the examples: at x = 90 and height y, no pipes
BirdAt(y) == [createBird EXCEPT !.y = y]
\* the bird touches the pipe p from outside, at distance exactly r
Tangent(b, p) ==
  \/ /\ p.x <= b.x /\ b.x <= p.x + PIPE_W
     /\ b.y - p.gapTop = BIRD_RADIUS \/ p.gapBot - b.y = BIRD_RADIUS
  \/ /\ b.y <= p.gapTop \/ b.y >= p.gapBot
     /\ p.x - b.x = BIRD_RADIUS \/ b.x - (p.x + PIPE_W) = BIRD_RADIUS

\* C18: checkCollision is true exactly when the bird's bottom is at or below
\* the ground, or its top at or above the ceiling, or its centre is closer
\* than r to the top or the bottom rectangle of some pipe; (90, 500) with no
\* pipes does not collide and (90, 506) does; a bird tangent to a pipe and
\* clear of ground and ceiling does not collide; and the collision step
\* kills exactly the birds that collide.
C18_CollisionIff ==
  /\ checkCollision(bird, pipes) <=> Touches(bird, pipes)
  /\ ~checkCollision(BirdAt(50000), <<>>)
  /\ checkCollision(BirdAt(50600), <<>>)
  /\ \A i \in DOMAIN pipes :
       (Tangent(bird, pipes[i]) /\ Len(pipes) = 1 /\ bird.alive
          /\ bird.y > BIRD_RADIUS /\ bird.y + BIRD_RADIUS < GROUND_Y)
         => ~checkCollision(bird, pipes)
  /\ phase = "DEAD" => Touches(bird, pipes) /\ ~bird.alive

\* C18 witness: the collision step has killed a bird that overlaps the near
\* corner of the bottom pipe by the least amount (1 / 100 px short of
\* tangent)
C18_Witness ==
  /\ phase = "DEAD"
  /\ Len(pipes) = 1
  /\ pipes[1].x - bird.x = 840
  /\ pipes[1].gapBot - bird.y = 1119

\* C19: a frame in DEAD leaves the bird, the pipes, the score, the best
\* score and the phase as they are; a frame in START leaves the score, the
\* (empty) pipe list and the bird's velocity as they are; and the score is
\* raised only by a frame in PLAYING.
C19_FrozenOutsidePlaying ==
  [][/\ (phase = "DEAD" /\ Loop)
          => UNCHANGED <<bird, pipes, score, bestScore, phase>>
     /\ (phase = "START" /\ Loop)
          => /\ UNCHANGED <<score, pipes, phase>>
             /\ pipes = <<>>
             /\ bird'.vy = bird.vy
     /\ score' > score => phase = "PLAYING" /\ Loop]_vars

\* C19 witness: frames have passed on the game-over screen of a run that
\* scored, with its pipes still there
C19_Witness ==
  /\ phase = "DEAD"
  /\ animFrame
  /\ sinceDeath > 0
  /\ score > 0
  /\ pipes # <<>>

C21_PipesApart ==
  \A i, j \in DOMAIN pipes : i < j => pipes[i].x + PIPE_W <= pipes[j].x

\* C23: the bird's alive flag is false exactly when the phase is DEAD; so in
\* PLAYING the guard of the flap (PLAYING and alive) is the phase test alone.
C23_AliveIffNotDead ==
  /\ bird.alive <=> phase # "DEAD"
  /\ phase = "PLAYING" => bird.alive

\* C23 witness: a restarted run (its bird created by resetGame after a death
\* that set a new best) with another restart timer still pending
C23_Witness ==
  /\ phase = "PLAYING"
  /\ bird.alive
  /\ setCalls > 0
  /\ timers # <<>>

RECURSIVE FramesToGround(_, _)
\* the number of frames gravity alone takes to bring a bird at height y
\* with velocity vy to the ground
FramesToGround(y, vy) ==
  IF y + BIRD_RADIUS >= GROUND_Y THEN 0
  ELSE LET v == IF vy + GRAVITY < MAX_FALL_VEL THEN vy + GRAVITY
                ELSE MAX_FALL_VEL
       IN  1 + FramesToGround(y + v, v)

\* C22: a run ends if frames keep coming and flaps stop.  Every frame of a
\* run brings the bird one frame nearer to the ground along its free fall
\* (only a flap or a restart takes it further away), the fall is never longer
\* than from the ceiling at the jump velocity, and the frame that completes
\* it ends in DEAD; and if from some point on there is no flap, every state
\* of a run whose frames are scheduled is followed by DEAD (or by the bound
\* of the model).
C22_RunEnds ==
  /\ [][(phase = "PLAYING" /\ Loop)
          => /\ FramesToGround(bird.y, bird.vy) >= 1
             /\ FramesToGround(bird.y, bird.vy)
                  <= FramesToGround(BIRD_RADIUS, JUMP_VEL)
             /\ FramesToGround(bird'.y, bird'.vy)
                  = FramesToGround(bird.y, bird.vy) - 1
             /\ FramesToGround(bird'.y, bird'.vy) = 0 => phase' = "DEAD"]_vars
  /\ (<>[][~handleFlap]_vars)
       => ((phase = "PLAYING" /\ animFrame)
             ~> (phase = "DEAD" \/ AtBound \/ ~animFrame))

\* C22 witness: a bird that fell to the ground at terminal velocity from
\* above the gap of a pipe, in a run that was restarted
C22_Witness ==
  /\ phase = "DEAD"
  /\ bird.y + BIRD_RADIUS >= GROUND_Y
  /\ bird.vy = MAX_FALL_VEL
  /\ setCalls > 0
====
